---------------------------- MODULE Spec2Model ----------------------------
(***************************************************************************)
(* Model of the Sustainability Lens backend: the ESG framework matcher and *)
(* locator of backend/utils/extract.py and the upload / processing /       *)
(* results handlers of backend/main.py.                                    *)
(*                                                                         *)
(* Strings are modelled by what the code asks of them.  A candidate        *)
(* sentence is a record saying which catalog keyword it contains verbatim  *)
(* (kind "exact"), or which keyword it merely resembles and with which     *)
(* partial_ratio score (kind "near"), or neither (kind "plain"), together  *)
(* with its words.  A text is a record of its leading whitespace, its core *)
(* (first to last non-blank character), its trailing whitespace and its    *)
(* candidate sentences, so that len() and strip() are computed.            *)
(* For the segmenter a text is a sequence of runs of one character, and    *)
(* for the categorizer a name is the sequence of its characters.           *)
(* Percentages are exact: page sizes and coordinates are drawn so that     *)
(* every division of the locator is exact.                                 *)
(***************************************************************************)
EXTENDS Integers, Sequences, FiniteSets, TLC

VARIABLES
  text_in,        \* find_framework_matches: text_content, a sequence of runs
  name_in,        \* categorize_framework: framework_name, its characters
  category,       \* categorize_framework: the category returned
  sentences,      \* find_framework_matches: candidate sentences of text_content
  page_layouts,   \* find_framework_matches / find_sentence_in_pages: the layouts
  matches,        \* find_framework_matches: the list returned
  sentence,       \* find_sentence_in_pages: the evidence sentence
  located,        \* find_sentence_in_pages: the (page, bbox) returned
  pc,             \* position of the matcher / locator run
  documents,      \* the documents table: doc_id -> row
  results_files,  \* uploads/<doc_id>_results.json: doc_id -> results_data
  pdf_files,      \* uploads/<doc_id>.pdf: the ids whose upload is on disk
  run,            \* what the last process_pdf_document call did
  response        \* the last HTTP response

vars == << text_in, name_in, category,
           sentences, page_layouts, matches, sentence, located, pc,
           documents, results_files, pdf_files, run, response >>

NULL == "NULL"

----------------------------------------------------------------------------
(* The framework catalog, in dict (insertion) order.  len is len(keyword). *)
(* The keyword "1.5__c pathway" stands for the source's 14-character       *)
(* non-ASCII keyword.                                                      *)

ESG_FRAMEWORKS ==
  << [name |-> "Science Based Targets initiative",
      keywords |-> <<
        [text |-> "science based targets", len |-> 21],
        [text |-> "sbti", len |-> 4],
        [text |-> "science-based targets", len |-> 21],
        [text |-> "1.5__c pathway", len |-> 14],
        [text |-> "net zero targets", len |-> 16],
        [text |-> "carbon reduction targets", len |-> 24] >>],
     [name |-> "Social & Labor Convergence Program",
      keywords |-> <<
        [text |-> "slcp", len |-> 4],
        [text |-> "social labor convergence", len |-> 24],
        [text |-> "labor convergence program", len |-> 25],
        [text |-> "slcp assessment", len |-> 15],
        [text |-> "slcp audit", len |-> 10],
        [text |-> "social compliance audit", len |-> 23] >>],
     [name |-> "Higg Facility Environmental Module",
      keywords |-> <<
        [text |-> "higg fem", len |-> 8],
        [text |-> "higg facility environmental", len |-> 27],
        [text |-> "sustainable apparel coalition", len |-> 29],
        [text |-> "higg index", len |-> 10],
        [text |-> "environmental module", len |-> 20],
        [text |-> "facility environmental assessment", len |-> 33] >>],
     [name |-> "Zero Discharge of Hazardous Chemicals",
      keywords |-> <<
        [text |-> "zdhc", len |-> 4],
        [text |-> "zero discharge hazardous", len |-> 24],
        [text |-> "hazardous chemicals discharge", len |-> 29],
        [text |-> "chemical management", len |-> 19],
        [text |-> "wastewater guidelines", len |-> 21],
        [text |-> "textile chemicals", len |-> 17] >>],
     [name |-> "Global Reporting Initiative",
      keywords |-> <<
        [text |-> "gri standards", len |-> 13],
        [text |-> "global reporting initiative", len |-> 27],
        [text |-> "gri framework", len |-> 13],
        [text |-> "sustainability reporting standards", len |-> 34],
        [text |-> "gri disclosure", len |-> 14] >>],
     [name |-> "Task Force on Climate-related Financial Disclosures",
      keywords |-> <<
        [text |-> "tcfd", len |-> 4],
        [text |-> "climate-related financial disclosures", len |-> 37],
        [text |-> "climate risk disclosure", len |-> 23],
        [text |-> "financial climate risk", len |-> 22],
        [text |-> "tcfd recommendations", len |-> 20] >>],
     [name |-> "Fair Labor Association",
      keywords |-> <<
        [text |-> "fair labor association", len |-> 22],
        [text |-> "fla accreditation", len |-> 17],
        [text |-> "workplace standards", len |-> 19],
        [text |-> "labor rights monitoring", len |-> 23],
        [text |-> "fla compliance", len |-> 14] >>],
     [name |-> "UN Global Compact",
      keywords |-> <<
        [text |-> "un global compact", len |-> 17],
        [text |-> "united nations global compact", len |-> 29],
        [text |-> "global compact principles", len |-> 25],
        [text |-> "ten principles", len |-> 14],
        [text |-> "human rights principles", len |-> 23] >>],
     [name |-> "Carbon Disclosure Project",
      keywords |-> <<
        [text |-> "cdp", len |-> 3],
        [text |-> "carbon disclosure project", len |-> 25],
        [text |-> "climate disclosure", len |-> 18],
        [text |-> "environmental disclosure", len |-> 24],
        [text |-> "carbon reporting", len |-> 16] >>],
     [name |-> "Sustainability Accounting Standards Board",
      keywords |-> <<
        [text |-> "sasb", len |-> 4],
        [text |-> "sustainability accounting standards", len |-> 35],
        [text |-> "sasb standards", len |-> 14],
        [text |-> "industry-specific sustainability", len |-> 32],
        [text |-> "material sustainability issues", len |-> 30] >>],
     [name |-> "ISO 14001",
      keywords |-> <<
        [text |-> "iso 14001", len |-> 9],
        [text |-> "environmental management system", len |-> 31],
        [text |-> "environmental certification", len |-> 27],
        [text |-> "iso environmental standard", len |-> 26] >>],
     [name |-> "B Corporation Certification",
      keywords |-> <<
        [text |-> "b corp", len |-> 6],
        [text |-> "b corporation", len |-> 13],
        [text |-> "benefit corporation", len |-> 19],
        [text |-> "b corp certification", len |-> 20],
        [text |-> "social and environmental performance", len |-> 36],
        [text |-> "certified b corp", len |-> 16] >>],
     [name |-> "Forest Stewardship Council",
      keywords |-> <<
        [text |-> "fsc", len |-> 3],
        [text |-> "forest stewardship council", len |-> 26],
        [text |-> "fsc certified", len |-> 13],
        [text |-> "responsible forestry", len |-> 20],
        [text |-> "sustainable forest management", len |-> 29] >>],
     [name |-> "Cradle to Cradle Certified",
      keywords |-> <<
        [text |-> "cradle to cradle", len |-> 16],
        [text |-> "c2c certified", len |-> 13],
        [text |-> "circular design", len |-> 15],
        [text |-> "material health assessment", len |-> 26] >>],
     [name |-> "LEED Certification",
      keywords |-> <<
        [text |-> "leed", len |-> 4],
        [text |-> "leadership in energy environmental design", len |-> 41],
        [text |-> "green building certification", len |-> 28],
        [text |-> "leed certified", len |-> 14],
        [text |-> "sustainable building", len |-> 20] >>] >>

(* Pairs <<k, j>> of distinct catalog keywords with k a substring of j: a  *)
(* sentence that contains j contains k.                                    *)
KeywordSubstrings ==
  { <<"slcp", "slcp assessment">>, <<"slcp", "slcp audit">>,
    <<"tcfd", "tcfd recommendations">>, <<"sasb", "sasb standards">>,
    <<"b corp", "b corporation">>, <<"b corp", "b corp certification">>,
    <<"b corp", "certified b corp">>, <<"fsc", "fsc certified">>,
    <<"leed", "leed certified">> }

----------------------------------------------------------------------------
(* Sentences.                                                              *)

SentenceWords == << "w1", "w2", "w3", "w4" >>

PlainSentence ==
  [kind |-> "plain", kw |-> "", ratio |-> 40, words |-> SentenceWords]

ExactSentence(k) ==
  [kind |-> "exact", kw |-> k, ratio |-> 100, words |-> SentenceWords]

NoSentence ==
  [kind |-> "none", kw |-> "", ratio |-> 0, words |-> << >>]

NearSentence(k, r) ==
  [kind |-> "near", kw |-> k, ratio |-> r, words |-> SentenceWords]

(* keyword.lower() in sentence_lower *)
Contains(keyword, s) ==
  /\ s.kind = "exact"
  /\ \/ keyword.text = s.kw
     \/ << keyword.text, s.kw >> \in KeywordSubstrings

(* fuzz.partial_ratio(keyword.lower(), sentence_lower): 100 on containment *)
partial_ratio(keyword, s) ==
  IF Contains(keyword, s) THEN 100
  ELSE IF s.kind = "near" /\ s.kw = keyword.text THEN s.ratio
  ELSE 40

Min(a, b) == IF a <= b THEN a ELSE b
Max(a, b) == IF a >= b THEN a ELSE b

----------------------------------------------------------------------------
(* The locator.  A page layout is                                          *)
(*   [page_num, width, height,                                             *)
(*    lines    : the lines of text_dict's blocks, in block order, each a   *)
(*               sequence of spans [bbox |-> <<x0,y0,x1,y1>>, text |-> the *)
(*               set of words in the span's text],                         *)
(*    raw_text : the lines of page.get_text(), each                        *)
(*               [s |-> the sentence that starts on the line (NoSentence   *)
(*                      for none),                                         *)
(*                whole |-> it lies on the line, single-spaced]].          *)
(* The empty tuple stands for Python's None where a box is expected.       *)

PlaceholderBox == << 10, 45, 90, 55 >>

(* The center band where the whole page is meant. *)
CenterBox == << 10, 45, 90, 55 >>

FullPageBox == << 0, 0, 100, 100 >>

(* line_bbox after the span loop: the union of the span boxes, << >> for a *)
(* line without spans.                                                     *)
RECURSIVE LineBBox(_, _, _)
LineBBox(spans, i, line_bbox) ==
  IF i > Len(spans) THEN line_bbox
  ELSE LET b == spans[i].bbox IN
       LineBBox(spans, i + 1,
                IF line_bbox = << >> THEN b
                ELSE << Min(line_bbox[1], b[1]), Min(line_bbox[2], b[2]),
                        Max(line_bbox[3], b[3]), Max(line_bbox[4], b[4]) >>)

(* words_found: the sentence words that occur in the line's text *)
WordsFound(sentence_words, spans) ==
  Cardinality({ w \in 1..Len(sentence_words) :
                  \E i \in 1..Len(spans) : sentence_words[w] \in spans[i].text })

(* The scan that lets a later line of equal score take over. *)
RECURSIVE BestLineLast(_, _, _, _)
BestLineLast(lines, sentence_words, i, best) ==
  IF i > Len(lines) THEN best
  ELSE LET line_bbox == LineBBox(lines[i], 1, << >>)
           words_found == WordsFound(sentence_words, lines[i])
       IN BestLineLast(lines, sentence_words, i + 1,
                   IF /\ words_found >= best.score
                      /\ 10 * words_found > 3 * Len(sentence_words)
                      /\ line_bbox # << >>
                   THEN [match |-> line_bbox, score |-> words_found]
                   ELSE best)

(* The scan over the lines.  best is [match, score]; score is words_found, *)
(* the numerator of match_score, whose denominator len(sentence_words) is  *)
(* the same for every line; match_score > 0.3 is 10 * words_found > 3 * n. *)
RECURSIVE BestLine(_, _, _, _)
BestLine(lines, sentence_words, i, best) ==
  IF i > Len(lines) THEN best
  ELSE LET line_bbox == LineBBox(lines[i], 1, << >>)
           words_found == WordsFound(sentence_words, lines[i])
       IN BestLine(lines, sentence_words, i + 1,
                   IF /\ words_found > best.score
                      /\ 10 * words_found > 3 * Len(sentence_words)
                      /\ line_bbox # << >>
                   THEN [match |-> line_bbox, score |-> words_found]
                   ELSE best)

(* (v / dim) * 100 *)
Pct(v, dim) == (v * 100) \div dim

(* lines 230-244: percentages, padding, clamping *)
PaddedBox(best_match, page_width, page_height) ==
  LET padding == 2 IN
  << Max(0, Pct(best_match[1], page_width) - padding),
     Max(0, Pct(best_match[2], page_height) - padding),
     Min(100, Pct(best_match[3], page_width) + padding),
     Min(100, Pct(best_match[4], page_height) + padding) >>

(* raw_text.lower().find(sentence_clean[:50].lower()): the first raw line  *)
(* on which the sentence starts, 0 for -1.                                 *)
FindPrefix(s, raw_text) ==
  LET hits == { i \in 1..Len(raw_text) : raw_text[i].s = s }
  IN IF hits = {} THEN 0 ELSE CHOOSE i \in hits : \A j \in hits : i <= j

(* lines 246-256: the band estimated from the line count *)
RawTextBox(s, raw_text) ==
  LET start == FindPrefix(s, raw_text)
      lines == start - 1
      total_lines == Len(raw_text)
      estimated_y == (lines * 100) \div total_lines
  IN << 5, Max(0, estimated_y - 3), 95, Min(100, estimated_y + 8) >>

compute_sentence_bbox(s, page_layout) ==
  IF s.words = << >> THEN PlaceholderBox
  ELSE LET best == BestLine(page_layout.lines, s.words, 1,
                            [match |-> << >>, score |-> 0])
       IN IF best.match # << >>
          THEN IF page_layout.width = 0 \/ page_layout.height = 0
               THEN PlaceholderBox   \* ZeroDivisionError, caught at line 261
               ELSE PaddedBox(best.match, page_layout.width, page_layout.height)
          ELSE IF FindPrefix(s, page_layout.raw_text) # 0
               THEN RawTextBox(s, page_layout.raw_text)
               ELSE PlaceholderBox

(* sentence_clean.lower() in page_layout["raw_text"].lower() *)
InRawText(s, raw_text) ==
  \/ s.words = << >>      \* the empty string is in every text
  \/ \E i \in 1..Len(raw_text) :
        raw_text[i].s = s /\ raw_text[i].whole

RECURSIVE FindInPages(_, _, _)
FindInPages(s, layouts, i) ==
  IF i > Len(layouts) THEN << 1, FullPageBox >>
  ELSE IF InRawText(s, layouts[i].raw_text)
       THEN << layouts[i].page_num, compute_sentence_bbox(s, layouts[i]) >>
       ELSE FindInPages(s, layouts, i + 1)

find_sentence_in_pages(s, layouts) == FindInPages(s, layouts, 1)

----------------------------------------------------------------------------
(* The matcher.                                                            *)

(* lines 334-338: the first keyword, in list order, that the sentence      *)
(* contains; 0 for none.                                                   *)
FirstExact(keywords, s) ==
  LET hits == { k \in 1..Len(keywords) : Contains(keywords[k], s) }
  IN IF hits = {} THEN 0 ELSE CHOOSE k \in hits : \A j \in hits : k <= j

FirstFuzzyGe(keywords, s) ==
  LET hits == { k \in 1..Len(keywords) : partial_ratio(keywords[k], s) >= 80 }
  IN IF hits = {} THEN 0 ELSE CHOOSE k \in hits : \A j \in hits : k <= j

(* lines 342-346: the first keyword whose partial_ratio exceeds 80 *)
FirstFuzzy(keywords, s) ==
  LET hits == { k \in 1..Len(keywords) : partial_ratio(keywords[k], s) > 80 }
  IN IF hits = {} THEN 0 ELSE CHOOSE k \in hits : \A j \in hits : k <= j

ExactConfidenceGe(keyword) == IF keyword.len >= 10 THEN 95 ELSE 85

(* line 336 *)
ExactConfidence(keyword) == IF keyword.len > 10 THEN 95 ELSE 85

(* line 345 *)
FuzzyConfidence(ratio) == Min(ratio, 90)

(* lines 330-346: the loop over the sentences, best_matches accumulating   *)
(* (sentence, confidence) pairs.                                           *)
RECURSIVE ScanSentences(_, _, _, _)
ScanSentences(keywords, sents, i, best_matches) ==
  IF i > Len(sents) THEN best_matches
  ELSE LET s == sents[i]
           e == FirstExact(keywords, s)
           direct == IF e # 0
                     THEN Append(best_matches,
                                 << s, ExactConfidence(keywords[e]) >>)
                     ELSE best_matches
           f == FirstFuzzy(keywords, s)
           fuzzy == IF direct = << >> /\ f # 0
                    THEN Append(direct,
                                << s, FuzzyConfidence(
                                        partial_ratio(keywords[f], s)) >>)
                    ELSE direct
       IN ScanSentences(keywords, sents, i + 1, fuzzy)

TakeAll(best_matches) == best_matches

TakeLast(best_matches) ==
  IF best_matches = << >> THEN << >>
  ELSE << best_matches[Len(best_matches)] >>

(* line 349: best_matches[:1] *)
TakeFirst(best_matches) ==
  IF best_matches = << >> THEN << >> ELSE << best_matches[1] >>

(* lines 349-366: the ESGMatch objects of one framework, ids from match_id *)
RECURSIVE MakeMatches(_, _, _, _, _)
MakeMatches(framework_name, taken, layouts, i, match_id) ==
  IF i > Len(taken) THEN << >>
  ELSE LET loc == find_sentence_in_pages(taken[i][1], layouts) IN
       << [id |-> match_id,
           framework |-> framework_name,
           evidence |-> taken[i][1],
           page_number |-> loc[1],
           confidence |-> taken[i][2],
           bbox |-> loc[2]] >>
       \o MakeMatches(framework_name, taken, layouts, i + 1, match_id + 1)

(* lines 326-366: the loop over the catalog *)
RECURSIVE ScanFrameworks(_, _, _, _)
ScanFrameworks(sents, layouts, fi, found) ==
  IF fi > Len(ESG_FRAMEWORKS) THEN found
  ELSE LET fw == ESG_FRAMEWORKS[fi]
           best_matches == ScanSentences(fw.keywords, sents, 1, << >>)
           new == MakeMatches(fw.name, TakeFirst(best_matches), layouts, 1,
                              Len(found) + 1)
       IN ScanFrameworks(sents, layouts, fi + 1, found \o new)

(* Insertion of m into a list sorted by confidence descending, after the   *)
(* entries of equal confidence: sorted() is stable, also with reverse=True. *)
RECURSIVE InsertSorted(_, _)
InsertSorted(m, sorted) ==
  IF sorted = << >> THEN << m >>
  ELSE IF Head(sorted).confidence >= m.confidence
       THEN << Head(sorted) >> \o InsertSorted(m, Tail(sorted))
       ELSE << m >> \o sorted

RECURSIVE SortFrom(_, _, _)
SortFrom(ms, i, sorted) ==
  IF i > Len(ms) THEN sorted
  ELSE SortFrom(ms, i + 1, InsertSorted(ms[i], sorted))

Unsorted(ms) == ms

(* line 369: sorted(matches, key=lambda x: x.confidence, reverse=True) *)
SortByConfidence(ms) == SortFrom(ms, 1, << >>)

find_framework_matches(sents, layouts) ==
  SortByConfidence(ScanFrameworks(sents, layouts, 1, << >>))

----------------------------------------------------------------------------
(* Texts: [lead, core, trail, sents].  lead and trail count the leading    *)
(* and trailing whitespace, core the characters from the first to the last *)
(* non-blank one; a text without a non-blank character keeps all of its    *)
(* whitespace in lead.  sents lists the candidate sentences of the text.   *)

EmptyText == [lead |-> 0, core |-> 0, trail |-> 0, sents |-> << >>]

(* "\n\n" *)
ParagraphSeparator == [lead |-> 2, core |-> 0, trail |-> 0, sents |-> << >>]

(* len(text) *)
TextLen(t) == t.lead + t.core + t.trail

(* len(text.strip()) *)
StripLen(t) == t.core

(* a + b *)
Concat(a, b) ==
  [lead  |-> IF a.core = 0 /\ b.core = 0
             THEN a.lead + a.trail + b.lead + b.trail
             ELSE IF a.core = 0 THEN a.lead + a.trail + b.lead ELSE a.lead,
   core  |-> IF a.core = 0 THEN b.core
             ELSE IF b.core = 0 THEN a.core
             ELSE a.core + a.trail + b.lead + b.core,
   trail |-> IF b.core = 0
             THEN (IF a.core = 0 THEN 0 ELSE a.trail + b.lead + b.trail)
             ELSE b.trail,
   sents |-> a.sents \o b.sents]

(* "\n\n".join(texts) *)
RECURSIVE JoinFrom(_, _)
JoinFrom(texts, i) ==
  IF i > Len(texts) THEN EmptyText
  ELSE IF i = Len(texts) THEN texts[i]
  ELSE Concat(texts[i], Concat(ParagraphSeparator, JoinFrom(texts, i + 1)))

Join(texts) == JoinFrom(texts, 1)

(* lines 321-322: the candidate sentences of the text *)
CandidateSentences(t) == t.sents

----------------------------------------------------------------------------
(* A PDF is [opens, text_ok, pages]: whether fitz.open succeeds, whether   *)
(* page.get_text succeeds on its pages, and per page the text and layout   *)
(* PyMuPDF extracts and the text Tesseract reads on the rendered page.     *)
(* The environment of a run is [tesseract, ocr_error, fault]: Tesseract    *)
(* installed, rendering or recognition raising, and the step of the        *)
(* service at which an exception is raised ("none" for no step).           *)

(* lines 111-117: the layout of page i *)
PageLayout(page, i) ==
  [page_num |-> i, width |-> page.width, height |-> page.height,
   lines |-> page.lines, raw_text |-> page.raw_text]

extract_selectable_text(pdf) ==
  IF ~pdf.opens \/ ~pdf.text_ok
  THEN [text |-> EmptyText, layouts |-> << >>]
  ELSE [text |-> Join([i \in 1..Len(pdf.pages) |-> pdf.pages[i].text]),
        layouts |-> [i \in 1..Len(pdf.pages) |-> PageLayout(pdf.pages[i], i)]]

(* outcome: "unavailable" (line 141), "error" (line 164) or "completed"    *)
(* (line 160); results: the (text, page) list returned.                    *)
run_tesseract_on_pages(pdf, env) ==
  IF ~env.tesseract THEN [outcome |-> "unavailable", results |-> << >>]
  ELSE IF ~pdf.opens \/ env.ocr_error
  THEN [outcome |-> "error", results |-> << >>]
  ELSE [outcome |-> "completed",
        results |-> [i \in 1..Len(pdf.pages) |-> << pdf.pages[i].ocr, i >>]]

InsufficientTextLe(text_content) == StripLen(text_content) <= 200

(* line 119 *)
InsufficientText(text_content) == StripLen(text_content) < 200

ExtractTextNoElse(pdf, env) ==
  LET sel == extract_selectable_text(pdf) IN
  IF ~InsufficientText(sel.text)
  THEN [text |-> sel.text, layouts |-> sel.layouts, method |-> "selectable",
        ocr |-> "not_run", ocr_pages |-> 0]
  ELSE LET o == run_tesseract_on_pages(pdf, env)
           ocr_text == Join([i \in 1..Len(o.results) |-> o.results[i][1]])
       IN IF o.results # << >>
          THEN [text |-> IF StripLen(sel.text) > 0
                         THEN Concat(sel.text,
                                     Concat(ParagraphSeparator, ocr_text))
                         ELSE ocr_text,
                layouts |-> sel.layouts, method |-> "ocr",
                ocr |-> o.outcome, ocr_pages |-> Len(o.results)]
          ELSE [text |-> sel.text, layouts |-> sel.layouts,
                method |-> "selectable",
                ocr |-> o.outcome, ocr_pages |-> 0]

(* lines 117-130: [text, method, ocr, ocr_pages] *)
ExtractText(pdf, env) ==
  LET sel == extract_selectable_text(pdf) IN
  IF ~InsufficientText(sel.text)
  THEN [text |-> sel.text, layouts |-> sel.layouts, method |-> "selectable",
        ocr |-> "not_run", ocr_pages |-> 0]
  ELSE LET o == run_tesseract_on_pages(pdf, env)
           ocr_text == Join([i \in 1..Len(o.results) |-> o.results[i][1]])
       IN IF o.results # << >>
          THEN [text |-> IF StripLen(sel.text) > 0
                         THEN Concat(sel.text,
                                     Concat(ParagraphSeparator, ocr_text))
                         ELSE ocr_text,
                layouts |-> sel.layouts, method |-> "ocr",
                ocr |-> o.outcome, ocr_pages |-> Len(o.results)]
          ELSE [text |-> sel.text, layouts |-> sel.layouts,
                method |-> "limited",
                ocr |-> o.outcome, ocr_pages |-> 0]

TotalPagesLen(layouts) == Len(layouts)

(* line 141 *)
TotalPages(layouts) == IF layouts # << >> THEN Len(layouts) ELSE 1

(* lines 138-145 *)
ResultsData(x, ms) ==
  [matches |-> ms,
   total_pages |-> TotalPages(x.layouts),
   text_extraction_method |-> x.method,
   text_length |-> TextLen(x.text)]

(* lines 151-156 *)
Metadata(results_data) ==
  [total_matches |-> Len(results_data.matches),
   extraction_method |-> results_data.text_extraction_method,
   total_pages |-> results_data.total_pages,
   text_length |-> results_data.text_length]

(* A row of the documents table.  metadata is << >> for SQL NULL and       *)
(* << m >> for the JSON of m.                                              *)
NewRow ==
  [status |-> "processing", results_path |-> NULL, error_message |-> NULL,
   metadata |-> << >>]

(* lines 91-103: UPDATE ... WHERE id = doc_id *)
update_document_status(db, doc_id, status, results_path, error, metadata) ==
  IF doc_id \in DOMAIN db
  THEN [db EXCEPT ![doc_id] =
          [status |-> status, results_path |-> results_path,
           error_message |-> error, metadata |-> metadata]]
  ELSE db

ResultsPath == "uploads/results.json"

OnExceptionSkip(db, doc_id, message) == db

(* lines 161-163: the except clause *)
OnException(db, doc_id, message) ==
  update_document_status(db, doc_id, "failed", NULL, message, << >>)

(* lines 105-163.  Returns the new table and results files and the record  *)
(* of the run: the trimmed length of the selectable text, the extraction   *)
(* method, how run_tesseract_on_pages ended and with how many page         *)
(* results, the number of layouts, whether Tesseract is installed, the     *)
(* PDF processed, the step that raised (failed_at) and the outcome:        *)
(* "returned", or "raised" when the update to 'failed' in the except       *)
(* clause raises itself.                                                   *)
process_pdf_document(doc_id, pdf, env, db, files) ==
  LET x == ExtractText(pdf, env)
      ms == find_framework_matches(CandidateSentences(x.text), x.layouts)
      results_data == ResultsData(x, ms)
      written == [d \in DOMAIN files \cup {doc_id} |->
                    IF d = doc_id THEN results_data ELSE files[d]]
      trace == [doc_id |-> doc_id, selectable_len |->
                  StripLen(extract_selectable_text(pdf).text),
                method |-> x.method, ocr |-> x.ocr, ocr_pages |-> x.ocr_pages,
                layout_pages |-> Len(x.layouts), tesseract |-> env.tesseract,
                pdf |-> pdf]
  IN CASE env.fault = "match" ->
            [db |-> OnException(db, doc_id, "matching failed"),
             files |-> files,
             run |-> trace @@ [outcome |-> "returned", failed_at |-> "match"]]
       [] env.fault = "write" ->
            [db |-> OnException(db, doc_id, "cannot write results"),
             files |-> files,
             run |-> trace @@ [outcome |-> "returned", failed_at |-> "write"]]
       [] env.fault = "update" ->
            [db |-> OnException(db, doc_id, "database error"),
             files |-> written,
             run |-> trace @@ [outcome |-> "returned", failed_at |-> "update"]]
       [] env.fault = "database" ->
            [db |-> db,
             files |-> written,
             run |-> trace @@ [outcome |-> "raised", failed_at |-> "update"]]
       [] OTHER ->
            [db |-> update_document_status(db, doc_id, "ready", ResultsPath,
                                           NULL, << Metadata(results_data) >>),
             files |-> written,
             run |-> trace @@ [outcome |-> "returned", failed_at |-> "none"]]

----------------------------------------------------------------------------
(* Bounds of the model.                                                    *)

MaxSentences == 3   \* candidate sentences of a document given to the matcher
MaxLines == 2       \* layout lines of a page given to the locator
MaxDocs == 1        \* uploads accepted by the service

----------------------------------------------------------------------------
(* The service: upload_pdf, which processes the document synchronously,    *)
(* and get_results.                                                        *)

NoRun ==
  [doc_id |-> 0, selectable_len |-> 0, method |-> "none", ocr |-> "not_run",
   ocr_pages |-> 0, layout_pages |-> 0, tesseract |-> FALSE,
   pdf |-> [opens |-> FALSE, text_ok |-> FALSE, pages |-> << >>],
   outcome |-> "none", failed_at |-> "none"]

NoResponse ==
  [op |-> "none", code |-> 0, id |-> 0, status |-> "none", results |-> << >>]

Reply(op, code, id, status, results) ==
  [op |-> op, code |-> code, id |-> id, status |-> status,
   results |-> results]

S95 == ExactSentence("science based targets")
S85 == ExactSentence("slcp audit")
SFuzzy == NearSentence("higg index", 86)

AllWords == { SentenceWords[i] : i \in 1..Len(SentenceWords) }

(* A page with selectable text: sentence s on its only line; the text has  *)
(* core characters and ends in a newline.  whole: s is single-spaced.      *)
DigitalPage(s, core, whole) ==
  [width |-> 200, height |-> 100,
   lines |-> << << [bbox |-> << 20, 10, 180, 20 >>, text |-> AllWords] >> >>,
   raw_text |-> << [s |-> s, whole |-> whole] >>,
   text |-> [lead |-> 0, core |-> core, trail |-> 1, sents |-> << s >>],
   ocr |-> [lead |-> 0, core |-> core, trail |-> 1, sents |-> << s >>]]

(* A scanned page: no selectable text; Tesseract reads s on the image. *)
ScannedPage(s) ==
  [width |-> 200, height |-> 100, lines |-> << >>, raw_text |-> << >>,
   text |-> EmptyText,
   ocr |-> [lead |-> 0, core |-> 60, trail |-> 1, sents |-> << s >>]]

(* An empty page: Tesseract reads nothing on it either. *)
BlankPage ==
  [width |-> 200, height |-> 100, lines |-> << >>, raw_text |-> << >>,
   text |-> EmptyText, ocr |-> EmptyText]

Pdf(opens, text_ok, pages) ==
  [opens |-> opens, text_ok |-> text_ok, pages |-> pages]

PdfChoices ==
  { Pdf(FALSE, FALSE, << >>),                    \* not a readable PDF
    Pdf(TRUE, TRUE, << >>),                      \* a PDF without pages
    Pdf(TRUE, FALSE, << ScannedPage(S85) >>),    \* get_text raises
    Pdf(TRUE, TRUE, << BlankPage >>),
    Pdf(TRUE, TRUE, << ScannedPage(S85) >>),
    Pdf(TRUE, TRUE, << DigitalPage(S95, 199, TRUE) >>),
    Pdf(TRUE, TRUE, << DigitalPage(S95, 200, TRUE) >>),
    Pdf(TRUE, TRUE, << DigitalPage(S95, 30, TRUE),
                       DigitalPage(SFuzzy, 40, FALSE) >>),
    Pdf(TRUE, TRUE, << BlankPage, DigitalPage(SFuzzy, 250, TRUE) >>),
    Pdf(TRUE, TRUE, << DigitalPage(S85, 120, TRUE), ScannedPage(S95) >>) }

Faults == { "none", "insert", "match", "write", "update", "database" }

EnvChoices ==
  [tesseract : BOOLEAN, ocr_error : BOOLEAN, fault : Faults]

(* The uploaded file: its name ends in .pdf, its size exceeds             *)
(* MAX_FILE_SIZE, its content.                                             *)
FileChoices ==
  { [is_pdf |-> FALSE, too_big |-> FALSE, pdf |-> Pdf(FALSE, FALSE, << >>)],
    [is_pdf |-> TRUE, too_big |-> TRUE, pdf |-> Pdf(FALSE, FALSE, << >>)] }
  \cup { [is_pdf |-> TRUE, too_big |-> FALSE, pdf |-> p] : p \in PdfChoices }

Init ==
  /\ sentences = << >>
  /\ page_layouts = << >>
  /\ matches = << >>
  /\ sentence = NoSentence
  /\ located = << >>
  /\ pc = "service"
  /\ documents = [d \in {} |-> NewRow]
  /\ results_files = [d \in {} |-> NewRow]
  /\ pdf_files = {}
  /\ run = NoRun
  /\ response = NoResponse
  /\ text_in = << >>
  /\ name_in = << >>
  /\ category = NULL

(* lines 171-231.  doc_id stands for the fresh uuid4. *)
UploadPdf(file, env) ==
  LET doc_id == Cardinality(DOMAIN documents) + 1
      inserted == [d \in DOMAIN documents \cup {doc_id} |->
                     IF d = doc_id THEN NewRow ELSE documents[d]]
  IN /\ pc = "service"
     /\ doc_id <= MaxDocs
     /\ UNCHANGED << text_in, name_in, category, sentences,
                     page_layouts, matches, sentence, located, pc >>
     /\ IF ~file.is_pdf \/ file.too_big
        THEN /\ response' = Reply("upload", 400, 0, "none", << >>)
             /\ UNCHANGED << documents, results_files, pdf_files, run >>
        ELSE IF env.fault = "insert"
        THEN \* the file is written, the INSERT raises, the file is unlinked
             /\ response' = Reply("upload", 500, 0, "none", << >>)
             /\ UNCHANGED << documents, results_files, pdf_files, run >>
        ELSE \E p \in { process_pdf_document(doc_id, file.pdf, env, inserted,
                                              results_files) } :
             /\ documents' = p.db
             /\ results_files' = p.files
             /\ run' = p.run
             /\ IF p.run.outcome = "raised"
                THEN /\ pdf_files' = pdf_files \ {doc_id}
                     /\ response' = Reply("upload", 500, 0, "none", << >>)
                ELSE /\ pdf_files' = pdf_files \cup {doc_id}
                     /\ response' = Reply("upload", 200, doc_id, "ready",
                                          << >>)

(* lines 233-279 *)
GetResults(doc_id) ==
  /\ pc = "service"
  /\ UNCHANGED << text_in, name_in, category, sentences,
                  page_layouts, matches, sentence, located, pc,
                  documents, results_files, pdf_files, run >>
  /\ response' =
       IF doc_id \notin DOMAIN documents
       THEN Reply("results", 404, doc_id, "none", << >>)
       ELSE LET doc == documents[doc_id] IN
            IF doc.status = "failed"
            THEN Reply("results", 200, doc_id, "failed", << >>)
            ELSE IF doc.status = "processing"
            THEN Reply("results", 200, doc_id, "processing", << >>)
            ELSE IF doc.results_path # NULL /\ doc_id \in DOMAIN results_files
            THEN Reply("results", 200, doc_id, "ready",
                       results_files[doc_id].matches)
            ELSE Reply("results", 200, doc_id, "failed", << >>)

Next ==
  \/ \E file \in FileChoices, env \in EnvChoices : UploadPdf(file, env)
  \/ \E doc_id \in 1..MaxDocs : GetResults(doc_id)

Spec == Init /\ [][Next]_vars

----------------------------------------------------------------------------
(* The matcher on its own: find_framework_matches applied to a document    *)
(* of up to MaxSentences candidate sentences.                              *)

ExactVocabulary ==
  { "science based targets", "sbti", "slcp audit", "higg index" }

NearVocabulary == { "science based targets", "higg index" }

NearRatios == { 80, 86, 95 }

SentenceChoices ==
  { PlainSentence }
  \cup { ExactSentence(k) : k \in ExactVocabulary }
  \cup { NearSentence(k, r) : k \in NearVocabulary, r \in NearRatios }

RECURSIVE SeqsUpTo(_, _)
SeqsUpTo(S, n) ==
  IF n = 0 THEN { << >> }
  ELSE LET shorter == SeqsUpTo(S, n - 1) IN
       shorter \cup { Append(q, x) : q \in { r \in shorter : Len(r) = n - 1 },
                                      x \in S }

(* The one-page layout on which every sentence of the document is a line. *)
RenderPage(sents) ==
  [page_num |-> 1, width |-> 200, height |-> 100,
   lines |-> [i \in 1..Len(sents) |->
                << [bbox |-> << 20, 10 * i, 180, 10 * i + 8 >>,
                    text |-> AllWords] >>],
   raw_text |-> [i \in 1..Len(sents) |-> [s |-> sents[i], whole |-> TRUE]]]

InitMatch ==
  /\ sentences \in SeqsUpTo(SentenceChoices, MaxSentences)
  /\ page_layouts \in { << >>, << RenderPage(sentences) >> }
  /\ matches = << >>
  /\ sentence = NoSentence
  /\ located = << >>
  /\ pc = "input"
  /\ documents = [d \in {} |-> NewRow]
  /\ results_files = [d \in {} |-> NewRow]
  /\ pdf_files = {}
  /\ run = NoRun
  /\ response = NoResponse
  /\ text_in = << >>
  /\ name_in = << >>
  /\ category = NULL

FindFrameworkMatches ==
  /\ pc = "input"
  /\ matches' = find_framework_matches(sentences, page_layouts)
  /\ pc' = "done"
  /\ UNCHANGED << sentences, page_layouts, sentence, located, documents,
                  results_files, pdf_files, run, response,
                  text_in, name_in, category >>

NextMatch == FindFrameworkMatches

SpecMatch == InitMatch /\ [][NextMatch]_vars

----------------------------------------------------------------------------
(* The locator on its own: find_sentence_in_pages applied to a sentence    *)
(* and a layout whose page has up to MaxLines lines.                       *)

(* Span boxes in page units: inside the page, across its right edge,       *)
(* beyond its right edge, beyond its top left corner.                      *)
SpanBoxes ==
  { << 20, 10, 80, 20 >>, << 60, 40, 240, 60 >>,
    << 220, 10, 260, 20 >>, << -40, -30, -10, -10 >> }

SpanTexts == { { "w1" }, { "w1", "w2" }, AllWords }

LineChoices ==
  { << >> }
  \cup { << [bbox |-> b, text |-> t] >> : b \in SpanBoxes, t \in SpanTexts }
  \cup { << [bbox |-> << 20, 10, 80, 20 >>, text |-> { "w1" }],
            [bbox |-> b, text |-> { "w2" }] >> :
            b \in { << 60, 40, 240, 60 >>, << -40, -30, -10, -10 >> } }

PageSizes == { << 200, 100 >>, << 100, 200 >>, << 0, 100 >> }

LocatedSentence == PlainSentence

(* The raw text of the page: the sentence on its first line, on its second *)
(* line, or wrapped over a line break.                                     *)
RawTextChoices ==
  { << [s |-> LocatedSentence, whole |-> TRUE] >>,
    << [s |-> NoSentence, whole |-> TRUE],
       [s |-> LocatedSentence, whole |-> TRUE] >>,
    << [s |-> LocatedSentence, whole |-> FALSE] >> }

LocatorPage(n, size, lines, raw_text) ==
  [page_num |-> n, width |-> size[1], height |-> size[2],
   lines |-> lines, raw_text |-> raw_text]

(* A page that does not hold the sentence. *)
OtherPage ==
  LocatorPage(1, << 200, 100 >>, << >>,
              << [s |-> NoSentence, whole |-> TRUE] >>)

LayoutChoices ==
  { << >> }
  \cup { << LocatorPage(1, size, lines, raw) >> :
            size \in PageSizes, lines \in SeqsUpTo(LineChoices, MaxLines),
            raw \in RawTextChoices }
  \cup { << OtherPage, LocatorPage(2, size, lines, raw) >> :
            size \in PageSizes, lines \in SeqsUpTo(LineChoices, MaxLines),
            raw \in RawTextChoices }

InitLocate ==
  /\ sentences = << >>
  /\ page_layouts \in LayoutChoices
  /\ matches = << >>
  /\ sentence \in { LocatedSentence, NoSentence }
  /\ located = << >>
  /\ pc = "input"
  /\ documents = [d \in {} |-> NewRow]
  /\ results_files = [d \in {} |-> NewRow]
  /\ pdf_files = {}
  /\ run = NoRun
  /\ response = NoResponse
  /\ text_in = << >>
  /\ name_in = << >>
  /\ category = NULL

FindSentenceInPages ==
  /\ pc = "input"
  /\ located' = find_sentence_in_pages(sentence, page_layouts)
  /\ pc' = "done"
  /\ UNCHANGED << sentences, page_layouts, matches, sentence, documents,
                  results_files, pdf_files, run, response,
                  text_in, name_in, category >>

NextLocate == FindSentenceInPages

SpecLocate == InitLocate /\ [][NextLocate]_vars
----------------------------------------------------------------------------
(* The segmenter: lines 321-322 of find_framework_matches.  Here a text is *)
(* a sequence of runs [ch, n]: n >= 1 copies of the character ch.          *)

IsStop(ch) == ch \in { ".", "!", "?" }

(* str.strip() removes whitespace *)
IsSpace(ch) == ch \in { " ", "\n" }

(* re.split(r'[.!?]+', text): the fragments between the maximal runs of    *)
(* stop characters, empty fragments included.                              *)
RECURSIVE ReSplit(_, _, _, _)
ReSplit(text, i, fragment, out) ==
  IF i > Len(text) THEN Append(out, fragment)
  ELSE IF IsStop(text[i].ch)
       THEN IF i > 1 /\ IsStop(text[i - 1].ch)
            THEN ReSplit(text, i + 1, fragment, out)   \* same delimiter
            ELSE ReSplit(text, i + 1, << >>, Append(out, fragment))
       ELSE ReSplit(text, i + 1, Append(fragment, text[i]), out)

RECURSIVE LStrip(_)
LStrip(s) ==
  IF s # << >> /\ IsSpace(Head(s).ch) THEN LStrip(Tail(s)) ELSE s

RECURSIVE RStrip(_)
RStrip(s) ==
  IF s # << >> /\ IsSpace(s[Len(s)].ch)
  THEN RStrip(SubSeq(s, 1, Len(s) - 1)) ELSE s

(* s.strip() *)
Strip(s) == RStrip(LStrip(s))

(* len(s) *)
RECURSIVE StrLen(_)
StrLen(s) == IF s = << >> THEN 0 ELSE Head(s).n + StrLen(Tail(s))

(* The test with 20 itself admitted. *)
KeepFragmentGe(s) == StrLen(Strip(s)) >= 20

(* len(s.strip()) > 20 *)
KeepFragment(s) == StrLen(Strip(s)) > 20

(* [s.strip() for s in sentences if len(s.strip()) > 20] *)
RECURSIVE StripKept(_, _)
StripKept(fragments, i) ==
  IF i > Len(fragments) THEN << >>
  ELSE IF KeepFragment(fragments[i])
       THEN << Strip(fragments[i]) >> \o StripKept(fragments, i + 1)
       ELSE StripKept(fragments, i + 1)

SplitSentences(text) == StripKept(ReSplit(text, 1, << >>, << >>), 1)

(* The texts segmented: up to MaxRuns runs of one character, or of 19 or   *)
(* 20 letters.                                                             *)
MaxRuns == 4

RunChoices ==
  { [ch |-> c, n |-> 1] : c \in { " ", ".", "!", "?", "a" } }
  \cup { [ch |-> "a", n |-> 19], [ch |-> "a", n |-> 20] }

TextChoices == SeqsUpTo(RunChoices, MaxRuns)

InitSegment ==
  /\ text_in \in TextChoices
  /\ name_in = << >>
  /\ category = NULL
  /\ sentences = << >>
  /\ page_layouts = << >>
  /\ matches = << >>
  /\ sentence = NoSentence
  /\ located = << >>
  /\ pc = "input"
  /\ documents = [d \in {} |-> NewRow]
  /\ results_files = [d \in {} |-> NewRow]
  /\ pdf_files = {}
  /\ run = NoRun
  /\ response = NoResponse

Segment ==
  /\ pc = "input"
  /\ sentences' = SplitSentences(text_in)
  /\ pc' = "done"
  /\ UNCHANGED << text_in, name_in, category, page_layouts, matches, sentence,
                  located, documents, results_files, pdf_files, run, response >>

NextSegment == Segment

SpecSegment == InitSegment /\ [][NextSegment]_vars

----------------------------------------------------------------------------
(* The categorizer: categorize_framework.  Here a string is the sequence   *)
(* of its characters, so that lower() and the substring test are computed. *)

UpperCase ==
  << "A", "B", "C", "D", "E", "F", "G", "H", "I", "J", "K", "L", "M",
     "N", "O", "P", "Q", "R", "S", "T", "U", "V", "W", "X", "Y", "Z" >>

LowerCase ==
  << "a", "b", "c", "d", "e", "f", "g", "h", "i", "j", "k", "l", "m",
     "n", "o", "p", "q", "r", "s", "t", "u", "v", "w", "x", "y", "z" >>

(* str.lower() *)
Lower(s) ==
  [i \in 1..Len(s) |->
      IF \E u \in 1..Len(UpperCase) : UpperCase[u] = s[i]
      THEN LowerCase[CHOOSE u \in 1..Len(UpperCase) : UpperCase[u] = s[i]]
      ELSE s[i]]

(* kw in s *)
IsSubstring(kw, s) ==
  \E i \in 0..(Len(s) - Len(kw)) : SubSeq(s, i + 1, i + Len(kw)) = kw

environmental_keywords ==
  << << "c", "l", "i", "m", "a", "t", "e" >>,
     << "c", "a", "r", "b", "o", "n" >>,
     << "e", "n", "v", "i", "r", "o", "n", "m", "e", "n", "t", "a", "l" >>,
     << "e", "m", "i", "s", "s", "i", "o", "n" >>,
     << "e", "n", "e", "r", "g", "y" >>,
     << "w", "a", "s", "t", "e" >>,
     << "w", "a", "t", "e", "r" >>,
     << "f", "o", "r", "e", "s", "t" >>,
     << "c", "h", "e", "m", "i", "c", "a", "l" >>,
     << "p", "o", "l", "l", "u", "t", "i", "o", "n" >>,
     << "c", "i", "r", "c", "u", "l", "a", "r" >> >>

social_keywords ==
  << << "l", "a", "b", "o", "r" >>,
     << "s", "o", "c", "i", "a", "l" >>,
     << "h", "u", "m", "a", "n", " ", "r", "i", "g", "h", "t", "s" >>,
     << "f", "a", "i", "r" >>,
     << "w", "o", "r", "k", "e", "r" >>,
     << "c", "o", "m", "m", "u", "n", "i", "t", "y" >>,
     << "d", "i", "v", "e", "r", "s", "i", "t", "y" >>,
     << "h", "e", "a", "l", "t", "h" >>,
     << "s", "a", "f", "e", "t", "y" >>,
     << "s", "u", "p", "p", "l", "y", " ", "c", "h", "a", "i", "n" >> >>

governance_keywords ==
  << << "g", "o", "v", "e", "r", "n", "a", "n", "c", "e" >>,
     << "r", "e", "p", "o", "r", "t", "i", "n", "g" >>,
     << "d", "i", "s", "c", "l", "o", "s", "u", "r", "e" >>,
     << "c", "o", "m", "p", "l", "i", "a", "n", "c", "e" >>,
     << "s", "t", "a", "n", "d", "a", "r", "d", "s" >>,
     << "e", "t", "h", "i", "c", "s" >>,
     << "t", "r", "a", "n", "s", "p", "a", "r", "e", "n", "c", "y" >>,
     << "a", "c", "c", "o", "u", "n", "t", "a", "b", "i", "l", "i", "t",
        "y" >>,
     << "r", "i", "s", "k", " ", "m", "a", "n", "a", "g", "e", "m", "e",
        "n", "t" >> >>

(* sum(1 for kw in keywords if kw in framework_lower) *)
KeywordScore(keywords, framework_lower) ==
  Cardinality({ k \in 1..Len(keywords) :
                  IsSubstring(keywords[k], framework_lower) })

(* The comparison with ties falling through to the later branches. *)
categorize_strict(framework_name) ==
  LET framework_lower == Lower(framework_name)
      env_score == KeywordScore(environmental_keywords, framework_lower)
      social_score == KeywordScore(social_keywords, framework_lower)
      gov_score == KeywordScore(governance_keywords, framework_lower)
  IN IF env_score > social_score /\ env_score > gov_score
     THEN "Environmental"
     ELSE IF social_score > gov_score THEN "Social" ELSE "Governance"

categorize_framework(framework_name) ==
  LET framework_lower == Lower(framework_name)
      env_score == KeywordScore(environmental_keywords, framework_lower)
      social_score == KeywordScore(social_keywords, framework_lower)
      gov_score == KeywordScore(governance_keywords, framework_lower)
  IN IF env_score >= social_score /\ env_score >= gov_score
     THEN "Environmental"
     ELSE IF social_score >= gov_score THEN "Social" ELSE "Governance"

(* The names of ESG_FRAMEWORKS, in catalog order, character by character. *)
FrameworkNames ==
  << << "S", "c", "i", "e", "n", "c", "e", " ", "B", "a", "s", "e", "d",
        " ", "T", "a", "r", "g", "e", "t", "s", " ", "i", "n", "i", "t", "i",
        "a", "t", "i", "v", "e" >>,
     << "S", "o", "c", "i", "a", "l", " ", "&", " ", "L", "a", "b", "o",
        "r", " ", "C", "o", "n", "v", "e", "r", "g", "e", "n", "c", "e", " ",
        "P", "r", "o", "g", "r", "a", "m" >>,
     << "H", "i", "g", "g", " ", "F", "a", "c", "i", "l", "i", "t", "y",
        " ", "E", "n", "v", "i", "r", "o", "n", "m", "e", "n", "t", "a", "l",
        " ", "M", "o", "d", "u", "l", "e" >>,
     << "Z", "e", "r", "o", " ", "D", "i", "s", "c", "h", "a", "r", "g",
        "e", " ", "o", "f", " ", "H", "a", "z", "a", "r", "d", "o", "u", "s",
        " ", "C", "h", "e", "m", "i", "c", "a", "l", "s" >>,
     << "G", "l", "o", "b", "a", "l", " ", "R", "e", "p", "o", "r", "t",
        "i", "n", "g", " ", "I", "n", "i", "t", "i", "a", "t", "i", "v",
        "e" >>,
     << "T", "a", "s", "k", " ", "F", "o", "r", "c", "e", " ", "o", "n",
        " ", "C", "l", "i", "m", "a", "t", "e", "-", "r", "e", "l", "a", "t",
        "e", "d", " ", "F", "i", "n", "a", "n", "c", "i", "a", "l", " ", "D",
        "i", "s", "c", "l", "o", "s", "u", "r", "e", "s" >>,
     << "F", "a", "i", "r", " ", "L", "a", "b", "o", "r", " ", "A", "s",
        "s", "o", "c", "i", "a", "t", "i", "o", "n" >>,
     << "U", "N", " ", "G", "l", "o", "b", "a", "l", " ", "C", "o", "m",
        "p", "a", "c", "t" >>,
     << "C", "a", "r", "b", "o", "n", " ", "D", "i", "s", "c", "l", "o",
        "s", "u", "r", "e", " ", "P", "r", "o", "j", "e", "c", "t" >>,
     << "S", "u", "s", "t", "a", "i", "n", "a", "b", "i", "l", "i", "t",
        "y", " ", "A", "c", "c", "o", "u", "n", "t", "i", "n", "g", " ", "S",
        "t", "a", "n", "d", "a", "r", "d", "s", " ", "B", "o", "a", "r",
        "d" >>,
     << "I", "S", "O", " ", "1", "4", "0", "0", "1" >>,
     << "B", " ", "C", "o", "r", "p", "o", "r", "a", "t", "i", "o", "n",
        " ", "C", "e", "r", "t", "i", "f", "i", "c", "a", "t", "i", "o",
        "n" >>,
     << "F", "o", "r", "e", "s", "t", " ", "S", "t", "e", "w", "a", "r",
        "d", "s", "h", "i", "p", " ", "C", "o", "u", "n", "c", "i", "l" >>,
     << "C", "r", "a", "d", "l", "e", " ", "t", "o", " ", "C", "r", "a",
        "d", "l", "e", " ", "C", "e", "r", "t", "i", "f", "i", "e", "d" >>,
     << "L", "E", "E", "D", " ", "C", "e", "r", "t", "i", "f", "i", "c",
        "a", "t", "i", "o", "n" >> >>

(* The names categorized: the catalog's names and the names of up to       *)
(* MaxWords words, joined by single spaces.                                *)
MaxWords == 3

NameWords ==
  { << "C", "l", "i", "m", "a", "t", "e" >>,
    << "E", "N", "E", "R", "G", "Y" >>,
    << "F", "a", "i", "r" >>,
    << "H", "u", "m", "a", "n" >>,
    << "R", "i", "g", "h", "t", "s" >>,
    << "R", "e", "p", "o", "r", "t", "i", "n", "g" >>,
    << "S", "t", "a", "n", "d", "a", "r", "d", "s" >> }

RECURSIVE JoinWords(_)
JoinWords(ws) ==
  IF ws = << >> THEN << >>
  ELSE IF Len(ws) = 1 THEN ws[1]
  ELSE ws[1] \o << " " >> \o JoinWords(Tail(ws))

NameChoices ==
  { FrameworkNames[i] : i \in 1..Len(FrameworkNames) }
  \cup { JoinWords(ws) : ws \in SeqsUpTo(NameWords, MaxWords) }

InitCategorize ==
  /\ text_in = << >>
  /\ name_in \in NameChoices
  /\ category = NULL
  /\ sentences = << >>
  /\ page_layouts = << >>
  /\ matches = << >>
  /\ sentence = NoSentence
  /\ located = << >>
  /\ pc = "input"
  /\ documents = [d \in {} |-> NewRow]
  /\ results_files = [d \in {} |-> NewRow]
  /\ pdf_files = {}
  /\ run = NoRun
  /\ response = NoResponse

CategorizeFramework ==
  /\ pc = "input"
  /\ category' = categorize_framework(name_in)
  /\ pc' = "done"
  /\ UNCHANGED << text_in, name_in, sentences, page_layouts, matches,
                  sentence, located, documents, results_files, pdf_files,
                  run, response >>

NextCategorize == CategorizeFramework

SpecCategorize == InitCategorize /\ [][NextCategorize]_vars


----------------------------------------------------------------------------
(* Properties of find_framework_matches, under SpecMatch.                  *)

FrameworkIndex(name) ==
  CHOOSE fi \in 1..Len(ESG_FRAMEWORKS) : ESG_FRAMEWORKS[fi].name = name

KeywordsOf(name) == ESG_FRAMEWORKS[FrameworkIndex(name)].keywords

(* The sentence qualifies for the framework: an exact hit or a fuzzy one. *)
Qualifies(name, s) ==
  FirstExact(KeywordsOf(name), s) # 0 \/ FirstFuzzy(KeywordsOf(name), s) # 0

(* The match was made by keyword containment in its evidence sentence. *)
IsExactMatch(m) == FirstExact(KeywordsOf(m.framework), m.evidence) # 0

(* C1: the list returned by find_framework_matches holds at most one       *)
(* match per catalog framework.                                            *)
C1_AtMostOneMatchPerFramework ==
  \A i, j \in 1..Len(matches) :
     matches[i].framework = matches[j].framework => i = j

(* Two different sentences of the document qualify for one framework, and  *)
(* the matcher has returned its match for it.                              *)
C1_Witness ==
  /\ pc = "done"
  /\ \E m \in 1..Len(matches) : \E i, j \in 1..Len(sentences) :
        /\ i # j
        /\ sentences[i] # sentences[j]
        /\ Qualifies(matches[m].framework, sentences[i])
        /\ Qualifies(matches[m].framework, sentences[j])

(* C2, as claimed: a fuzzy match is returned for a framework only when no  *)
(* candidate sentence of the document contains one of the framework's      *)
(* keywords, and its confidence is at most 90.                             *)
C2_FuzzyOnlyWithoutExactHit ==
  \A m \in 1..Len(matches) :
     ~IsExactMatch(matches[m]) =>
        /\ matches[m].confidence <= 90
        /\ \A i \in 1..Len(sentences) :
              FirstExact(KeywordsOf(matches[m].framework), sentences[i]) = 0

(* C3: a match made by keyword containment has confidence 95 when the      *)
(* first keyword of its framework, in catalog order, that its evidence     *)
(* contains is longer than 10 characters, and 85 otherwise.                *)
C3_ExactConfidence ==
  \A m \in 1..Len(matches) :
     LET kws == KeywordsOf(matches[m].framework)
         e == FirstExact(kws, matches[m].evidence)
     IN e # 0 =>
          matches[m].confidence = (IF kws[e].len > 10 THEN 95 ELSE 85)

(* Both tiers are returned in one run, the lower one for a keyword of      *)
(* exactly 10 characters.                                                  *)
C3_Witness ==
  /\ pc = "done"
  /\ \E m, n \in 1..Len(matches) :
        LET kws == KeywordsOf(matches[m].framework)
            e == FirstExact(kws, matches[m].evidence)
        IN /\ e # 0
           /\ kws[e].len = 10
           /\ matches[m].confidence = 85
           /\ IsExactMatch(matches[n])
           /\ matches[n].confidence = 95

(* C4: the list returned is sorted by confidence descending, and matches   *)
(* of equal confidence are in catalog order.                               *)
C4_SortedByConfidence ==
  \A i, j \in 1..Len(matches) :
     i < j =>
        /\ matches[i].confidence >= matches[j].confidence
        /\ matches[i].confidence = matches[j].confidence =>
              FrameworkIndex(matches[i].framework)
                 < FrameworkIndex(matches[j].framework)

(* The sort has moved a later framework in front of two earlier ones of    *)
(* equal confidence.                                                       *)
C4_Witness ==
  /\ pc = "done"
  /\ Len(matches) >= 3
  /\ FrameworkIndex(matches[1].framework)
        > FrameworkIndex(matches[3].framework)
  /\ matches[1].confidence > matches[2].confidence
  /\ matches[2].confidence = matches[3].confidence

----------------------------------------------------------------------------
(* Properties of the service, under Spec.                                  *)

(* C5: after process_pdf_document returns, the stored status is 'ready'    *)
(* with a results path and no error message when no step raised, and       *)
(* 'failed' with the error message and no results path when a step raised; *)
(* it is never left at 'processing'.                                       *)
C5_ReadyOrFailedAfterReturn ==
  run.outcome = "returned" =>
     LET doc == documents[run.doc_id] IN
     IF run.failed_at = "none"
     THEN /\ doc.status = "ready"
          /\ doc.results_path # NULL
          /\ doc.error_message = NULL
     ELSE /\ doc.status = "failed"
          /\ doc.results_path = NULL
          /\ doc.error_message # NULL

(* The update to 'ready' raised after the results file was written, and    *)
(* the run returned with the document 'failed'.                            *)
C5_Witness ==
  /\ run.outcome = "returned"
  /\ run.failed_at = "update"
  /\ run.doc_id \in DOMAIN results_files
  /\ documents[run.doc_id].status = "failed"

(* C6, as claimed: when upload_pdf answers with status 'ready', the stored *)
(* status of the document is 'ready'.                                      *)
C6_UploadStatusIsStoredStatus ==
  (response.op = "upload" /\ response.code = 200 /\ response.status = "ready")
     => documents[response.id].status = "ready"

(* C8: in every results file each match's page_number lies in              *)
(* [1, total_pages].                                                       *)
C8_PageNumberWithinTotalPages ==
  \A d \in DOMAIN results_files :
     \A m \in 1..Len(results_files[d].matches) :
        /\ 1 <= results_files[d].matches[m].page_number
        /\ results_files[d].matches[m].page_number
              <= results_files[d].total_pages

(* A results file with a match although the layout list was empty: the     *)
(* text came from OCR alone.                                               *)
C8_Witness ==
  /\ run.doc_id \in DOMAIN results_files
  /\ run.layout_pages = 0
  /\ run.method = "ocr"
  /\ results_files[run.doc_id].matches # << >>

(* C9: when the trimmed selectable text has 200 or more characters the     *)
(* recorded extraction method is 'selectable' and OCR is not run.          *)
C9_SufficientTextIsSelectable ==
  (run.outcome # "none" /\ run.selectable_len >= 200) =>
     /\ run.method = "selectable"
     /\ run.ocr = "not_run"
     /\ run.doc_id \in DOMAIN results_files =>
           results_files[run.doc_id].text_extraction_method = "selectable"

(* Exactly 200 characters, Tesseract installed, the results written. *)
C9_Witness ==
  /\ run.selectable_len = 200
  /\ run.tesseract
  /\ run.doc_id \in DOMAIN results_files
  /\ results_files[run.doc_id].text_extraction_method = "selectable"

(* C10, as claimed: when the trimmed selectable text has fewer than 200    *)
(* characters and OCR succeeds, the recorded extraction method is 'ocr'.   *)
C10_OcrSuccessIsOcrMethod ==
  (/\ run.selectable_len < 200
   /\ run.ocr = "completed"
   /\ run.doc_id \in DOMAIN results_files)
     => results_files[run.doc_id].text_extraction_method = "ocr"

----------------------------------------------------------------------------
(* Properties of find_sentence_in_pages, under SpecLocate.                 *)

(* C7, as claimed: the box returned satisfies 0 <= x1 <= x2 <= 100 and     *)
(* 0 <= y1 <= y2 <= 100.                                                   *)
C7_BBoxWithinPage ==
  pc = "done" =>
     LET b == located[2] IN
     /\ 0 <= b[1] /\ b[1] <= b[3] /\ b[3] <= 100
     /\ 0 <= b[2] /\ b[2] <= b[4] /\ b[4] <= 100

----------------------------------------------------------------------------
(* Further properties of find_framework_matches, under SpecMatch.          *)

(* The confidence the matcher computes for sentence s and the framework:   *)
(* the exact tier of the first contained keyword, else the capped ratio of *)
(* the first keyword whose ratio exceeds 80.                               *)
ConfidenceFor(name, s) ==
  LET kws == KeywordsOf(name)
      e == FirstExact(kws, s)
  IN IF e # 0 THEN (IF kws[e].len > 10 THEN 95 ELSE 85)
     ELSE LET r == partial_ratio(kws[FirstFuzzy(kws, s)], s)
          IN IF r <= 90 THEN r ELSE 90

HasQualifyingSentence(fi) ==
  \E i \in 1..Len(sentences) :
     \E k \in 1..Len(ESG_FRAMEWORKS[fi].keywords) :
        \/ Contains(ESG_FRAMEWORKS[fi].keywords[k], sentences[i])
        \/ partial_ratio(ESG_FRAMEWORKS[fi].keywords[k], sentences[i]) > 80

(* C16: once the matcher has returned, a framework is in the result if and *)
(* only if some candidate sentence qualifies for it, and every confidence  *)
(* is greater than 80 and at most 95.                                      *)
C16_MatchedIffQualifies ==
  pc = "done" =>
     /\ \A fi \in 1..Len(ESG_FRAMEWORKS) :
           (\E m \in 1..Len(matches) :
               matches[m].framework = ESG_FRAMEWORKS[fi].name)
           <=> HasQualifyingSentence(fi)
     /\ \A m \in 1..Len(matches) :
           matches[m].confidence > 80 /\ matches[m].confidence <= 95

(* A document with a sentence whose best ratio is exactly 80: its          *)
(* framework is left out, while another framework is matched.              *)
C16_Witness ==
  /\ pc = "done"
  /\ matches # << >>
  /\ \E i \in 1..Len(sentences) :
        /\ sentences[i].kind = "near"
        /\ sentences[i].ratio = 80
        /\ \A m \in 1..Len(matches) :
              matches[m].framework # "Higg Facility Environmental Module"
        /\ sentences[i].kw = "higg index"

----------------------------------------------------------------------------
(* Further properties of the service, under Spec.                          *)

(* C11: when the trimmed selectable text has fewer than 200 characters and *)
(* Tesseract is not installed, the extraction method is 'limited', and     *)
(* unless another step raises the document ends 'ready' with the matches   *)
(* found in the selectable text: none, with total_pages 1, when there is   *)
(* no layout.                                                              *)
C11_LimitedWithoutOcrEngine ==
  (run.outcome # "none" /\ run.selectable_len < 200 /\ ~run.tesseract) =>
     /\ run.method = "limited"
     /\ run.ocr = "unavailable"
     /\ run.failed_at = "none" =>
           LET sel == extract_selectable_text(run.pdf)
               res == results_files[run.doc_id]
           IN /\ run.outcome = "returned"
              /\ documents[run.doc_id].status = "ready"
              /\ res.text_extraction_method = "limited"
              /\ res.matches
                    = find_framework_matches(CandidateSentences(sel.text),
                                             sel.layouts)
              /\ run.layout_pages = 0 =>
                    res.matches = << >> /\ res.total_pages = 1

(* A PDF without pages, no Tesseract: 'ready', 'limited', no match, one    *)
(* page reported.                                                          *)
C11_Witness ==
  /\ run.outcome = "returned"
  /\ run.pdf.opens
  /\ run.pdf.pages = << >>
  /\ ~run.tesseract
  /\ documents[run.doc_id].status = "ready"
  /\ results_files[run.doc_id].text_extraction_method = "limited"
  /\ results_files[run.doc_id].matches = << >>
  /\ results_files[run.doc_id].total_pages = 1

----------------------------------------------------------------------------
(* Further properties of find_sentence_in_pages, under SpecLocate.         *)

(* The page's raw text holds the sentence single-spaced. *)
FoundOn(p) == InRawText(sentence, page_layouts[p].raw_text)

(* The first page on which the sentence is found, 0 for none. *)
FirstPageFound ==
  LET ps == { p \in 1..Len(page_layouts) : FoundOn(p) }
  IN IF ps = {} THEN 0 ELSE CHOOSE p \in ps : \A q \in ps : p <= q

(* Some line of the page has spans and more than 0.3 of the sentence's     *)
(* words.                                                                  *)
HasBestLine(p) ==
  \E l \in 1..Len(page_layouts[p].lines) :
     /\ page_layouts[p].lines[l] # << >>
     /\ 10 * WordsFound(sentence.words, page_layouts[p].lines[l])
           > 3 * Len(sentence.words)

(* C13, as claimed: when the sentence is found on no page the locator      *)
(* returns page 1 with the box [10,45,90,55].                              *)
C13_NotFoundGivesPlaceholder ==
  (pc = "done" /\ FirstPageFound = 0) => located = << 1, << 10, 45, 90, 55 >> >>

(* C13, amended: when the sentence is found on no page the locator returns *)
(* page 1 with the box [0,0,100,100]; when the box computation raises on   *)
(* the page where the sentence is found, it returns that page's number     *)
(* with the box [10,45,90,55].                                             *)
C13_NotFoundGivesFullPage ==
  pc = "done" =>
     /\ FirstPageFound = 0 => located = << 1, << 0, 0, 100, 100 >> >>
     /\ (/\ FirstPageFound # 0
         /\ sentence.words # << >>
         /\ HasBestLine(FirstPageFound)
         /\ \/ page_layouts[FirstPageFound].width = 0
            \/ page_layouts[FirstPageFound].height = 0)
           => located = << page_layouts[FirstPageFound].page_num,
                           << 10, 45, 90, 55 >> >>

(* Two pages, the sentence wrapped over a line break on the second: found  *)
(* on neither.                                                             *)
C13_Witness ==
  /\ pc = "done"
  /\ Len(page_layouts) = 2
  /\ FirstPageFound = 0
  /\ \E l \in 1..Len(page_layouts[2].raw_text) :
        page_layouts[2].raw_text[l].s = sentence
  /\ located = << 1, << 0, 0, 100, 100 >> >>

(* The sentence starts on a line of the page's raw text, whether or not a  *)
(* line break falls inside it: the page holds the sentence when both are   *)
(* whitespace-normalised.                                                  *)
OnPage(p) ==
  \/ sentence.words = << >>
  \/ \E l \in 1..Len(page_layouts[p].raw_text) :
        page_layouts[p].raw_text[l].s = sentence

(* C17: the page number returned is that of the first page whose raw text  *)
(* holds the sentence under whitespace-normalised comparison, also when    *)
(* the sentence spans a line break of the page text.                       *)
C17_FirstPageHoldingSentence ==
  pc = "done" =>
     \A p \in 1..Len(page_layouts) :
        (OnPage(p) /\ \A q \in 1..(p - 1) : ~OnPage(q))
           => located[1] = page_layouts[p].page_num

(* The lines of the page where the sentence is found. *)
FoundLines == page_layouts[FirstPageFound].lines

(* The union of the boxes of a line's spans. *)
UnionBox(spans) ==
  LET Lo(k) == CHOOSE v \in { spans[i].bbox[k] : i \in 1..Len(spans) } :
                  \A i \in 1..Len(spans) : v <= spans[i].bbox[k]
      Hi(k) == CHOOSE v \in { spans[i].bbox[k] : i \in 1..Len(spans) } :
                  \A i \in 1..Len(spans) : v >= spans[i].bbox[k]
  IN << Lo(1), Lo(2), Hi(3), Hi(4) >>

(* The number of words of the sentence that line l holds. *)
Overlap(l) ==
  Cardinality({ w \in 1..Len(sentence.words) :
                  \E i \in 1..Len(FoundLines[l]) :
                     sentence.words[w] \in FoundLines[l][i].text })

(* The lines with spans whose word-overlap ratio exceeds 0.3. *)
EligibleLines ==
  { l \in 1..Len(FoundLines) :
       FoundLines[l] # << >> /\ 10 * Overlap(l) > 3 * Len(sentence.words) }

(* The earliest line of the highest ratio. *)
ChosenLine ==
  CHOOSE l \in EligibleLines :
     \A k \in EligibleLines :
        Overlap(l) > Overlap(k) \/ (Overlap(l) = Overlap(k) /\ l <= k)

(* The primary strategy applies: the sentence is found on a page of        *)
(* positive size with an eligible line.                                    *)
PrimaryStrategy ==
  /\ pc = "done"
  /\ FirstPageFound # 0
  /\ sentence.words # << >>
  /\ EligibleLines # {}
  /\ page_layouts[FirstPageFound].width > 0
  /\ page_layouts[FirstPageFound].height > 0

Clamp(v, lo, hi) == IF v < lo THEN lo ELSE IF v > hi THEN hi ELSE v

----------------------------------------------------------------------------
(* Properties of the segmenter, under SpecSegment.                         *)

(* Position i bounds a fragment: a stop character, or an end of the text.  *)
Boundary(i) ==
  i = 0 \/ i = Len(text_in) + 1 \/ IsStop(text_in[i].ch)

(* The fragments: the pairs of boundaries with no stop character between   *)
(* them, adjacent stop characters belonging to one delimiter.              *)
FragmentSpans ==
  { ab \in (0..Len(text_in)) \X (1..(Len(text_in) + 1)) :
       /\ ab[1] < ab[2]
       /\ Boundary(ab[1]) /\ Boundary(ab[2])
       /\ \A i \in (ab[1] + 1)..(ab[2] - 1) : ~IsStop(text_in[i].ch)
       /\ ab[2] = ab[1] + 1 => (ab[1] = 0 \/ ab[2] = Len(text_in) + 1) }

(* The runs of a fragment that remain after trimming. *)
Trimmed(ab) ==
  LET inner == { i \in (ab[1] + 1)..(ab[2] - 1) : ~IsSpace(text_in[i].ch) }
  IN IF inner = {} THEN << >>
     ELSE SubSeq(text_in,
                 CHOOSE i \in inner : \A j \in inner : i <= j,
                 CHOOSE i \in inner : \A j \in inner : i >= j)

RECURSIVE TrimmedLength(_)
TrimmedLength(s) ==
  IF s = << >> THEN 0 ELSE s[1].n + TrimmedLength(Tail(s))

(* The candidate sentences are the trimmed fragments of trimmed length     *)
(* least or more, in document order.                                       *)
SegmentedFrom(least) ==
  LET kept == { ab \in FragmentSpans : TrimmedLength(Trimmed(ab)) >= least }
      Rank(ab) == Cardinality({ cd \in kept : cd[1] <= ab[1] })
  IN /\ Len(sentences) = Cardinality(kept)
     /\ \A ab \in kept : sentences[Rank(ab)] = Trimmed(ab)

(* C14, as claimed: the candidate sentences are the fragments between runs *)
(* of '.', '!' or '?' whose trimmed length is 20 or more, in order.        *)
C14_KeepsTwentyOrMore == pc = "done" => SegmentedFrom(20)

(* C14, amended: the candidate sentences are the trimmed fragments between *)
(* runs of '.', '!' or '?' whose trimmed length is 21 or more, in document *)
(* order; a fragment of trimmed length 20 or less is discarded.            *)
C14_KeepsMoreThanTwenty == pc = "done" => SegmentedFrom(21)

(* A text with a fragment of trimmed length exactly 20, discarded, and one *)
(* of 21 that is kept.                                                     *)
C14_Witness ==
  /\ pc = "done"
  /\ \E ab \in FragmentSpans : TrimmedLength(Trimmed(ab)) = 20
  /\ \E ab \in FragmentSpans : TrimmedLength(Trimmed(ab)) = 21
  /\ Len(sentences) = 1

----------------------------------------------------------------------------
(* Properties of the categorizer, under SpecCategorize.                    *)

(* The keywords of a category, as the source lists them. *)
CategoryKeywords(c) ==
  IF c = "Environmental" THEN environmental_keywords
  ELSE IF c = "Social" THEN social_keywords ELSE governance_keywords

(* The number of the category's keywords that occur in the lowercased      *)
(* name.                                                                   *)
Hits(c) ==
  LET kws == CategoryKeywords(c)
      OccursAt(k, off) ==
        /\ off + Len(kws[k]) <= Len(name_in)
        /\ \A j \in 1..Len(kws[k]) :
              \/ name_in[off + j] = kws[k][j]
              \/ \E u \in 1..26 : /\ name_in[off + j] = UpperCase[u]
                                  /\ kws[k][j] = LowerCase[u]
  IN Cardinality({ k \in 1..Len(kws) :
                     \E off \in 0..Len(name_in) : OccursAt(k, off) })

(* The order of preference on ties. *)
Preference(c) ==
  IF c = "Environmental" THEN 1 ELSE IF c = "Social" THEN 2 ELSE 3

(* C15: the category returned has the highest keyword-hit count in the     *)
(* lowercased name, Environmental preferred to Social and Social to        *)
(* Governance on ties; a name with no hit at all is Environmental.         *)
C15_HighestScoreWins ==
  pc = "done" =>
     \E hits \in { [c \in { "Environmental", "Social", "Governance" }
                       |-> Hits(c)] } :
        /\ category \in DOMAIN hits
        /\ \A d \in DOMAIN hits :
              \/ hits[category] > hits[d]
              \/ hits[category] = hits[d]
                    /\ Preference(category) <= Preference(d)
        /\ (\A d \in DOMAIN hits : hits[d] = 0) => category = "Environmental"

(* 'Science Based Targets initiative' has no keyword of any category and   *)
(* is categorized Environmental.                                           *)
C15_Witness ==
  /\ pc = "done"
  /\ name_in = FrameworkNames[1]
  /\ Len(name_in) = 32
  /\ name_in[1] = "S" /\ name_in[9] = "B" /\ name_in[15] = "T"
  /\ \A d \in { "Environmental", "Social", "Governance" } : Hits(d) = 0
  /\ category = "Environmental"
=============================================================================
